---- MODULE Spec2Model ----
(***************************************************************************)
(* A model of tejasmahajan02/nestjs-queues.                                *)
(*                                                                         *)
(* Two programs are modelled.                                              *)
(*  - The base variant (src/src, src/unnamed): one shared queue APP_QUEUE, *)
(*    MailProducer.sendMail adding 'mail.send' jobs, and MailProcessor, a  *)
(*    worker bound to the shared queue that switches on job.name.          *)
(*  - The DLQ variant (src/docs/dql-guide.md): a 'mail' queue with         *)
(*    attempts = 3 and backoff = 5000, a MailProcessor that forwards a     *)
(*    failed job to 'mail-dlq' and rethrows, and MailDLQProcessor.         *)
(* The broker (BullMQ on Redis) appears as the steps the program's calls   *)
(* and options ask of it: accepting an add, handing a waiting job to a     *)
(* worker, settling a job when process() resolves or rejects, and moving   *)
(* a stalled job when the check for stalled jobs runs.                     *)
(* The base variant is also run with the worker of a second module on the  *)
(* shared queue (src/docs/queues.md), and in two processes either of which *)
(* may terminate with a job in flight.                                     *)
(***************************************************************************)
EXTENDS Integers, Sequences, FiniteSets, TLC

VARIABLES
    calls,      \* base: the calls of MailProducer.sendMail, in call order
    appQueue,   \* base: the jobs of the shared queue, by job id (1..Len)
    appFailed,  \* base: ids of the failed jobs the shared queue retains, oldest first
    env,        \* base: process.env.BULL_REMOVE_FAILED as the process was started
    stalledIn,  \* base: ms until the next check for stalled jobs of the shared queue
    mailQueue,  \* DLQ variant: the jobs of the 'mail' queue, by job id
    dlqQueue    \* DLQ variant: the jobs of the 'mail-dlq' queue, by job id

baseVars == <<calls, appQueue, appFailed, env, stalledIn>>
dlqVars == <<mailQueue, dlqQueue>>
vars == <<calls, appQueue, appFailed, env, stalledIn, mailQueue, dlqQueue>>

-----------------------------------------------------------------------------
(* Bounds of the model *)

\* jobs ever added to the shared queue (pending adds included)
MaxJobs == 2

\* jobs ever added to the 'mail' queue of the DLQ variant
MaxMailJobs == 2

\* failures of the sending in the DLQ variant, over all jobs
MaxThrows == 3

\* adds to 'mail-dlq' the broker rejects
MaxAddRejects == 1

\* the time one step of the clock takes, in ms
TickMs == 2500

\* terminations of a worker process with a job in flight, over all workers
MaxCrashes == 2

\* jobs ever added to the shared queue in the runs where processes terminate
MaxStallJobs == 1

\* the time one step of the clock of the stalled-job check takes, in ms
StallTickMs == 30000

-----------------------------------------------------------------------------
(* Names and options set by the program *)

\* MailJobNames.SEND
SEND == "mail.send"

\* MailJobNames.NOTIFY: declared, and handled nowhere
NOTIFY == "mail.notify"

\* a job name of another module that shares the queue
FOREIGN == "report.build"

\* the worker of the mail module on the shared queue
MAIL_WORKER == "MailProcessor"

\* the worker of the other module on the shared queue
OTHER_WORKER == "ReportProcessor"

\* MailProcessor in a second process of the application (horizontal scaling)
MAIL_REPLICA == "MailProcessor#2"

\* the MailProcessor workers of the shared queue
MailWorkers == {MAIL_WORKER, MAIL_REPLICA}

\* the DLQ variant's MailJobNames.MAIL_SEND
MAIL_SEND == "mail.send"

\* process.env.BULL_REMOVE_FAILED when the variable is not set
Undefined == [defined |-> FALSE, text |-> <<>>]

\* process.env.BULL_REMOVE_FAILED set to a text, given as its characters
Text(t) == [defined |-> TRUE, text |-> t]

\* the value of a decimal digit
DigitValue(c) ==
    CASE c = "0" -> 0 [] c = "1" -> 1 [] c = "2" -> 2 [] c = "3" -> 3 [] c = "4" -> 4
      [] c = "5" -> 5 [] c = "6" -> 6 [] c = "7" -> 7 [] c = "8" -> 8 [] c = "9" -> 9

\* parseInt(t, 10) of a text of decimal digits
RECURSIVE ParseInt(_)
ParseInt(t) ==
    IF Len(t) = 0 THEN 0
    ELSE ParseInt(SubSeq(t, 1, Len(t) - 1)) * 10 + DigitValue(t[Len(t)])

\* removeOnFail: parseInt(process.env.BULL_REMOVE_FAILED ?? '100', 10)
RemoveOnFail ==
    ParseInt(IF env.defined THEN env.text ELSE <<"1", "0", "0">>)

\* defaultJobOptions of the shared queue; no attempts and no backoff are set,
\* and a job without attempts is not retried. removeOnFail: n keeps the newest
\* n failed jobs (keepFailed = n), removeOnFail: true keeps none (keepFailed = 0)
AppQueueOptions ==
    [attempts |-> 0, backoff |-> 0, removeOnComplete |-> TRUE,
     keepFailed |-> RemoveOnFail, failedReason |-> ""]

\* options of the 'mail' queue with one attempt more
MailQueueOptionsFour ==
    [attempts |-> 4, backoff |-> 5000, removeOnComplete |-> TRUE, keepFailed |-> 0,
     failedReason |-> ""]

\* defaultJobOptions of the DLQ variant's 'mail' queue
MailQueueOptions ==
    [attempts |-> 3, backoff |-> 5000, removeOnComplete |-> TRUE, keepFailed |-> 0,
     failedReason |-> ""]

\* defaultJobOptions of 'mail-dlq'
DlqQueueOptions ==
    [attempts |-> 0, backoff |-> 0, removeOnComplete |-> TRUE, keepFailed |-> 0,
     failedReason |-> ""]

\* options that leave the failure reason out
DlqJobOptionsNoReason(message) == [DlqQueueOptions EXCEPT !.attempts = 0]

\* the options dlqQueue.add passes, over the defaults of 'mail-dlq'
DlqJobOptions(message) ==
    [DlqQueueOptions EXCEPT !.attempts = 0, !.failedReason = message]

\* worker options that let the worker process two jobs at a time
WorkerOptionsTwo ==
    [stalledInterval |-> 120000, lockDuration |-> 30000, concurrency |-> 2]

\* getWorkerOptions()
WorkerOptions ==
    [stalledInterval |-> 120000, lockDuration |-> 30000, concurrency |-> 1]

-----------------------------------------------------------------------------
(* Payloads, and their passage through the broker as JSON text *)

\* the payload null
Null == [isNull |-> TRUE]

\* the mail of bootstrap(), and the mail of the specification's scenario
MailDatas ==
    { [to |-> "admin@app.com", sub |-> "[Update] App Restarted", body |-> "App restarted"],
      [to |-> "a@b.com", sub |-> "x", body |-> "y"] }

\* what MailProducer.sendMail(to, subject, body) of the DLQ variant adds
DlqMailDatas ==
    { [to |-> "a@b.com", subject |-> "x", body |-> "y"],
      [to |-> "c@d.com", subject |-> "z", body |-> "w"] }

\* the messages of the errors a failed sending throws
Messages == {"Random mail failure", "boom"}

\* the message of the error the DLQ variant's simulated sending throws
DlqMessages == {"Random mail failure"}

\* the message of the error a rejected dlqQueue.add throws
AddError == "dlq add rejected"

\* what another module may pass to add on the shared queue
ForeignDatas == { Null, [to |-> "ops@app.com", report |-> "daily"] }

\* Queue.add stores JSON.stringify(data): the members of an object, or null
Stringify(d) ==
    IF d = Null
    THEN [isNull |-> TRUE, members |-> {}]
    ELSE [isNull |-> FALSE, members |-> {<<k, d[k]>> : k \in DOMAIN d}]

\* the worker's job.data is JSON.parse of the stored text
Parse(t) ==
    IF t.isNull
    THEN Null
    ELSE [k \in {m[1] : m \in t.members} |->
            (CHOOSE m \in t.members : m[1] = k)[2]]

-----------------------------------------------------------------------------
(* Helpers on job tables *)

Ids(q) == 1..Len(q)

InState(q, s) == {j \in Ids(q) : q[j].state = s}

\* the waiting job a worker is handed: the oldest one (no delay, no priority)
Oldest(q) == CHOOSE j \in InState(q, "wait") : \A k \in InState(q, "wait") : j <= k

Min(a, b) == IF a <= b THEN a ELSE b

Max(a, b) == IF a >= b THEN a ELSE b

\* A job as Queue.add(n, d, o) creates it. The fields sent, log, acks, waited
\* and src record the job's history and are read by no step of the program:
\*   sent    the payload as it was passed to add
\*   log     one entry per delivery (see NewAttempt)
\*   acks    how often the job was settled
\*   waited  the time since its last failure, up to its backoff
\*   src     for a dead-letter job, <<job, attempt>> of the failure it records
\* The fields worker, lock and stalls are the job's lock on the shared queue:
\*   worker  the worker that holds the job, "" when none does
\*   lock    the ms its lock still lasts when it is not renewed
\*   stalls  how often the job was recovered from a stall
NewJob(n, d, o, src) ==
    [name |-> n, json |-> Stringify(d), opts |-> o, state |-> "wait", pc |-> "-",
     attemptsMade |-> 0, dueIn |-> 0, kept |-> TRUE, err |-> "", failedReason |-> "",
     sent |-> d, log |-> <<>>, acks |-> 0, waited |-> 0, src |-> src,
     worker |-> "", lock |-> 0, stalls |-> 0]

\* the log entry of a delivery: the payloads the handler was invoked with, the
\* message of the error thrown, how the dead-letter add ended, the attempt's outcome
NewAttempt(gap) ==
    [handled |-> <<>>, threw |-> "", add |-> "", outcome |-> "", gap |-> gap]

\* the job, handed to a worker
Claimed(job) ==
    [job EXCEPT !.state = "active", !.pc = "process",
                !.log = Append(@, NewAttempt(job.waited))]

\* the job, handed to worker w of the shared queue, which takes its lock
ClaimedBy(job, w) ==
    [Claimed(job) EXCEPT !.worker = w, !.lock = WorkerOptions.lockDuration]

\* the job table after process(job) of job j settled, under the job's options:
\* resolved, the job is completed (and removed when removeOnComplete);
\* rejected, the attempt is counted and the job is retried while attempts are
\* left (after the backoff, when there is one), else it is failed for good and
\* the queue retains the failed jobs listed in retained
Settle(q, j, retained) ==
    LET o == q[j].opts
        n == Len(q[j].log)
    IN
    IF q[j].pc = "resolved"
    THEN [q EXCEPT ![j].state = "completed", ![j].pc = "-",
                   ![j].acks = @ + 1,
                   ![j].log[n].outcome = "completed",
                   ![j].kept = ~o.removeOnComplete]
    ELSE IF q[j].attemptsMade + 1 < o.attempts
    THEN [q EXCEPT ![j].state = IF o.backoff > 0 THEN "delayed" ELSE "wait",
                   ![j].pc = "-",
                   ![j].acks = @ + 1,
                   ![j].log[n].outcome = "retry",
                   ![j].failedReason = q[j].err,
                   ![j].attemptsMade = @ + 1,
                   ![j].dueIn = o.backoff,
                   ![j].waited = 0]
    ELSE [k \in Ids(q) |->
            IF k = j
            THEN [q[k] EXCEPT !.state = "failed", !.pc = "-",
                              !.acks = @ + 1,
                              !.log[n].outcome = "failed",
                              !.failedReason = q[j].err,
                              !.attemptsMade = @ + 1,
                              !.kept = o.keepFailed > 0]
            ELSE IF q[k].state = "failed"
            THEN [q[k] EXCEPT !.kept = \E i \in 1..Len(retained) : retained[i] = k]
            ELSE q[k]]

\* a queue that retains every failed job
RetainedAll(failed, j, keep) == Append(failed, j)

\* the failed jobs a queue retains once job j failed for good: the newest keep
Retained(failed, j, keep) ==
    LET all == Append(failed, j) IN
      IF Len(all) <= keep THEN all
      ELSE SubSeq(all, Len(all) - keep + 1, Len(all))

-----------------------------------------------------------------------------
(* Base variant: MailProducer *)

PendingAdds == {c \in 1..Len(calls) : calls[c].pc = "add"}

\* sendMail(mailData) is called and issues appQueue.add(SEND, mailData)
ProducerSendMail(m) ==
    /\ Len(appQueue) + Cardinality(PendingAdds) < MaxJobs
    /\ calls' = Append(calls, [mailData |-> m, pc |-> "add", job |-> 0])
    /\ UNCHANGED <<appQueue, appFailed, env, stalledIn, dlqVars>>

\* the broker accepts the add of call c: the job is stored, waiting
QueueAdd(c) ==
    /\ c \in PendingAdds
    /\ appQueue' = Append(appQueue,
                          NewJob(SEND, calls[c].mailData, AppQueueOptions, <<>>))
    /\ calls' = [calls EXCEPT ![c].pc = "added", ![c].job = Len(appQueue) + 1]
    /\ UNCHANGED <<appFailed, env, stalledIn, dlqVars>>

\* a producer that also awaits the job's completion before it returns
AddSettledWhenFinished(c) ==
    /\ calls[c].pc = "added"
    /\ appQueue[calls[c].job].state = "completed"

\* whether the awaited add of call c is over
AddSettled(c) == calls[c].pc = "added"

\* await appQueue.add(...) is over: sendMail returns
ProducerReturn(c) ==
    /\ c \in 1..Len(calls)
    /\ AddSettled(c)
    /\ calls' = [calls EXCEPT ![c].pc = "returned"]
    /\ UNCHANGED <<appQueue, appFailed, env, stalledIn, dlqVars>>

\* another module adds a job of its own name to the shared queue
OtherModuleAdd(n, d) ==
    /\ Len(appQueue) + Cardinality(PendingAdds) < MaxJobs
    /\ appQueue' = Append(appQueue, NewJob(n, d, AppQueueOptions, <<>>))
    /\ UNCHANGED <<calls, appFailed, env, stalledIn, dlqVars>>

-----------------------------------------------------------------------------
(* Base variant: MailProcessor on the shared queue *)

\* the jobs the process of worker w is processing; a job whose process has
\* terminated (pc = "gone") stays active, and nothing processes it
Running(w) ==
    {j \in InState(appQueue, "active") :
       appQueue[j].worker = w /\ appQueue[j].pc # "gone"}

\* whether worker w asks for a job: one waits, and w runs fewer than concurrency jobs
Free(w) ==
    /\ InState(appQueue, "wait") # {}
    /\ Cardinality(Running(w)) < WorkerOptions.concurrency

\* the shared queue, its oldest waiting job handed to worker w
Handed(w) == [appQueue EXCEPT ![Oldest(appQueue)] = ClaimedBy(@, w)]

\* MailProcessor takes the oldest waiting job when it runs fewer than concurrency jobs
WorkerClaim ==
    /\ Free(MAIL_WORKER)
    /\ appQueue' = Handed(MAIL_WORKER)
    /\ UNCHANGED <<calls, appFailed, env, stalledIn, dlqVars>>

\* MailProcessor of the second process does
ReplicaClaim ==
    /\ Free(MAIL_REPLICA)
    /\ appQueue' = Handed(MAIL_REPLICA)
    /\ UNCHANGED <<calls, appFailed, env, stalledIn, dlqVars>>

\* a process whose promise never settles
ReturnPending(job) == job

\* process: return {}
ReturnEmpty(job) == [job EXCEPT !.pc = "resolved"]

\* a catch block that logs the error and throws it again
CatchBlockRethrows(job, message) ==
    [job EXCEPT !.pc = "rejected", !.err = message,
                !.log[Len(job.log)].threw = message]

\* process: catch (error) { console.error(error) }, and the function ends
CatchBlock(job, message) ==
    [job EXCEPT !.pc = "resolved", !.err = message,
                !.log[Len(job.log)].threw = message]

\* a call of sendMail that passes the first mail of the queue, not the job's
CallSendMailFirst(job, data) ==
    [job EXCEPT !.pc = "sendMail",
                !.log[Len(job.log)].handled = Append(@, Parse(appQueue[1].json))]

\* process: await this.sendMail(data), which suspends in delay(3000)
CallSendMail(job, data) ==
    [job EXCEPT !.pc = "sendMail", !.log[Len(job.log)].handled = Append(@, data)]

\* a process that calls sendMail whatever the name of the job
DispatchAll(job) == CallSendMail(job, Parse(job.json))

\* process: const {name, data} = job; switch (name)
\*   case SEND: sendMail(data)
\*   default:   the log line reads data.to, a TypeError when data is null
Dispatch(job) ==
    LET data == Parse(job.json) IN
      IF job.name = SEND THEN CallSendMail(job, data)
      ELSE IF data = Null THEN CatchBlock(job, "TypeError")
      ELSE ReturnEmpty(job)

\* process(job) runs up to its first suspension, or to its end
ProcessStart(j) ==
    /\ j \in Ids(appQueue)
    /\ appQueue[j].state = "active"
    /\ appQueue[j].worker \in MailWorkers
    /\ appQueue[j].pc = "process"
    /\ appQueue' = [appQueue EXCEPT ![j] = Dispatch(@)]
    /\ UNCHANGED <<calls, appFailed, env, stalledIn, dlqVars>>

\* sendMail: the delay is over, the mail is logged; process goes on to return {}
SendMailResolves(j) ==
    /\ j \in Ids(appQueue)
    /\ appQueue[j].state = "active"
    /\ appQueue[j].pc = "sendMail"
    /\ appQueue' = [appQueue EXCEPT ![j] = ReturnEmpty(@)]
    /\ UNCHANGED <<calls, appFailed, env, stalledIn, dlqVars>>

\* sendMail: the awaited call rejects (the sending it stands for fails);
\* process goes on in its catch block
SendMailRejects(j, m) ==
    /\ j \in Ids(appQueue)
    /\ appQueue[j].state = "active"
    /\ appQueue[j].pc = "sendMail"
    /\ appQueue' = [appQueue EXCEPT ![j] = CatchBlock(@, m)]
    /\ UNCHANGED <<calls, appFailed, env, stalledIn, dlqVars>>

\* the worker settles job j once process(job) resolved or rejected
WorkerFinish(j) ==
    /\ j \in Ids(appQueue)
    /\ appQueue[j].state = "active"
    /\ appQueue[j].pc \in {"resolved", "rejected"}
    /\ LET retained == Retained(appFailed, j, appQueue[j].opts.keepFailed) IN
         /\ appQueue' = Settle(appQueue, j, retained)
         /\ appFailed' = IF appQueue'[j].state = "failed" THEN retained ELSE appFailed
    /\ UNCHANGED <<calls, env, stalledIn, dlqVars>>

-----------------------------------------------------------------------------
(* Base variant: a worker process terminating, and the stalled-job check *)

\* how often a job is recovered from a stall before it is failed: the option
\* maxStalledCount, which getWorkerOptions() leaves at its default
MaxStalledCount == 1

\* the failedReason of a job that stalled once too often
StalledError == "job stalled more than allowable limit"

\* the terminations so far that left a job in flight, as <<job, number>>
Crashes ==
    UNION {{<<j, k>> : k \in 1..(appQueue[j].stalls +
                                   IF appQueue[j].pc = "gone" THEN 1 ELSE 0)} :
             j \in Ids(appQueue)}

\* the process of worker w terminates while it processes a job: process(job)
\* never goes on, the job stays active, and its lock is renewed no more.
\* (The process is started again, with nothing in flight.)
WorkerCrash(w) ==
    /\ Cardinality(Crashes) < MaxCrashes
    /\ Running(w) # {}
    /\ appQueue' = [j \in Ids(appQueue) |->
                      IF j \in Running(w)
                      THEN [appQueue[j] EXCEPT !.pc = "gone"]
                      ELSE appQueue[j]]
    /\ UNCHANGED <<calls, appFailed, env, stalledIn, dlqVars>>

\* a job whose lock every check would find: its worker renews the lock each
\* lockDuration / 2 for as long as its process lives
Orphaned(job) == job.state = "active" /\ job.pc = "gone"

\* StallTickMs pass: the locks of the jobs without a live worker run down
StallTick ==
    /\ stalledIn > 0
    /\ stalledIn' = Max(0, stalledIn - StallTickMs)
    /\ appQueue' = [j \in Ids(appQueue) |->
                      IF Orphaned(appQueue[j])
                      THEN [appQueue[j] EXCEPT !.lock = Max(0, @ - StallTickMs)]
                      ELSE appQueue[j]]
    /\ UNCHANGED <<calls, appFailed, env, dlqVars>>

\* a check that takes every active job for stalled
StalledWhileLocked(job) == job.state = "active"

\* whether the check finds the job stalled: it is active and its lock expired
Stalled(job) == Orphaned(job) /\ job.lock = 0

\* the stalled job, back in the queue to be delivered again
Recovered(job) ==
    [job EXCEPT !.state = "wait", !.pc = "-", !.worker = "", !.lock = 0,
                !.stalls = @ + 1, !.log[Len(job.log)].outcome = "stalled"]

\* the stalled job, about to be failed for good
GivenUp(job) ==
    [job EXCEPT !.pc = "rejected", !.err = StalledError, !.worker = "",
                !.lock = 0, !.stalls = @ + 1]

\* the queue and its retained failed jobs after the stalled jobs in todo were
\* moved, oldest first: to wait, or to failed when recovered MaxStalledCount
\* times before
RECURSIVE MoveStalled(_, _, _)
MoveStalled(q, failed, todo) ==
    IF todo = {} THEN <<q, failed>>
    ELSE LET j == CHOOSE k \in todo : \A l \in todo : k <= l IN
           IF q[j].stalls < MaxStalledCount
           THEN MoveStalled([q EXCEPT ![j] = Recovered(@)], failed, todo \ {j})
           ELSE LET retained == Retained(failed, j, q[j].opts.keepFailed) IN
                  MoveStalled(Settle([q EXCEPT ![j] = GivenUp(@)], j, retained),
                              retained, todo \ {j})

\* the check for stalled jobs runs, every stalledInterval ms
StalledCheck ==
    /\ stalledIn = 0
    /\ LET moved == MoveStalled(appQueue, appFailed,
                                {j \in Ids(appQueue) : Stalled(appQueue[j])})
       IN /\ appQueue' = moved[1]
          /\ appFailed' = moved[2]
    /\ stalledIn' = WorkerOptions.stalledInterval
    /\ UNCHANGED <<calls, env, dlqVars>>

-----------------------------------------------------------------------------
(* Base variant: the worker of another module on the shared queue *)

\* the worker of the other module (no options: one job at a time) takes the
\* oldest waiting job of the shared queue, whatever its name
OtherWorkerClaim ==
    /\ InState(appQueue, "wait") # {}
    /\ Running(OTHER_WORKER) = {}
    /\ appQueue' = Handed(OTHER_WORKER)
    /\ UNCHANGED <<calls, appFailed, env, stalledIn, dlqVars>>

\* the module worker of the guide, for the module that owns name own:
\*   if (job.name === own) handle(job.data)
\* and the function ends: a job of another name is resolved with no handler run
ModuleWorker(job, own) ==
    [job EXCEPT !.pc = "resolved",
                !.log[Len(job.log)].handled =
                    IF job.name = own THEN Append(@, Parse(job.json)) ELSE @]

\* the same, the handler throwing an error with message m: nothing catches it
ModuleWorkerThrows(job, m) ==
    [job EXCEPT !.pc = "rejected", !.err = m,
                !.log[Len(job.log)].handled = Append(@, Parse(job.json)),
                !.log[Len(job.log)].threw = m]

\* process(job) of the other module's worker ends without a throw
OtherProcessOk(j) ==
    /\ j \in Ids(appQueue)
    /\ appQueue[j].state = "active"
    /\ appQueue[j].worker = OTHER_WORKER
    /\ appQueue[j].pc = "process"
    /\ appQueue' = [appQueue EXCEPT ![j] = ModuleWorker(@, FOREIGN)]
    /\ UNCHANGED <<calls, appFailed, env, stalledIn, dlqVars>>

\* process(job) of the other module's worker: the handler of its own job throws
OtherProcessThrows(j, m) ==
    /\ j \in Ids(appQueue)
    /\ appQueue[j].state = "active"
    /\ appQueue[j].worker = OTHER_WORKER
    /\ appQueue[j].pc = "process"
    /\ appQueue[j].name = FOREIGN
    /\ appQueue' = [appQueue EXCEPT ![j] = ModuleWorkerThrows(@, m)]
    /\ UNCHANGED <<calls, appFailed, env, stalledIn, dlqVars>>

-----------------------------------------------------------------------------
(* DLQ variant: MailProducer, MailProcessor on 'mail', the clock *)

\* sendMail(to, subject, body): mailQueue.add(MAIL_SEND, {to, subject, body})
MailSendMail(m) ==
    /\ Len(mailQueue) < MaxMailJobs
    /\ mailQueue' = Append(mailQueue, NewJob(MAIL_SEND, m, MailQueueOptions, <<>>))
    /\ UNCHANGED <<baseVars, dlqQueue>>

\* the worker of 'mail' (no options: one job at a time) takes the oldest waiting job
MailClaim ==
    /\ InState(mailQueue, "wait") # {}
    /\ InState(mailQueue, "active") = {}
    /\ mailQueue' = [mailQueue EXCEPT ![Oldest(mailQueue)] = Claimed(@)]
    /\ UNCHANGED <<baseVars, dlqQueue>>

\* a process that also escalates after a sending that did not throw
TryEndsEscalates(job) ==
    [job EXCEPT !.pc = "dlqAdd",
                !.log[Len(job.log)].handled = Append(@, Parse(job.json))]

\* process: the try block ends without a throw, and so does the function
TryEnds(job) ==
    [job EXCEPT !.pc = "resolved",
                !.log[Len(job.log)].handled =
                    IF job.name = MAIL_SEND THEN Append(@, Parse(job.json)) ELSE @]

\* process: the try block throws Error(m); the catch block logs it and
\* awaits dlqQueue.add(job.name, job.data, {attempts: 0, failedReason: err.message})
TryThrows(job, m) ==
    [job EXCEPT !.pc = "dlqAdd", !.err = m,
                !.log[Len(job.log)].handled = Append(@, Parse(job.json)),
                !.log[Len(job.log)].threw = m]

\* process(job): the sending succeeds
MailProcessOk(j) ==
    /\ j \in Ids(mailQueue)
    /\ mailQueue[j].state = "active"
    /\ mailQueue[j].pc = "process"
    /\ mailQueue' = [mailQueue EXCEPT ![j] = TryEnds(@)]
    /\ UNCHANGED <<baseVars, dlqQueue>>

\* the attempts so far in which the sending threw
Thrown(q) ==
    UNION {{<<j, a>> : a \in {b \in 1..Len(q[j].log) : q[j].log[b].threw # ""}} :
             j \in Ids(q)}

\* the attempts so far whose add to 'mail-dlq' was rejected
AddsRejected(q) == {x \in Thrown(q) : q[x[1]].log[x[2]].add = "rejected"}

\* process(job): the sending throws an error with message m
MailProcessThrows(j, m) ==
    /\ Cardinality(Thrown(mailQueue)) < MaxThrows
    /\ j \in Ids(mailQueue)
    /\ mailQueue[j].state = "active"
    /\ mailQueue[j].pc = "process"
    /\ mailQueue[j].name = MAIL_SEND
    /\ mailQueue' = [mailQueue EXCEPT ![j] = TryThrows(@, m)]
    /\ UNCHANGED <<baseVars, dlqQueue>>

\* the dead-letter job dlqQueue.add creates for the failed job
DeadLetter(job, j) ==
    NewJob(job.name, Parse(job.json), DlqJobOptions(job.err), <<j, Len(job.log)>>)

\* the job, how its awaited add to 'mail-dlq' ended noted in its log
AddLogged(job, how) == [job EXCEPT !.log[Len(job.log)].add = how]

\* a catch block that does not rethrow: process ends normally
Swallow(job) == [job EXCEPT !.pc = "resolved"]

\* process: throw err, after the awaited add
Rethrow(job) == [job EXCEPT !.pc = "rejected"]

\* a catch block that ignores a failed add and ends normally
AddFailureIgnored(job) == [job EXCEPT !.pc = "resolved"]

\* process: the awaited add throws, and its error leaves the catch block
AddThrows(job) == [job EXCEPT !.pc = "rejected", !.err = AddError]

\* a catch block that escalates only when the job has no attempt left
DlqAddOnLastAttempt(j) ==
    /\ j \in Ids(mailQueue)
    /\ mailQueue[j].state = "active"
    /\ mailQueue[j].pc = "dlqAdd"
    /\ dlqQueue' = IF mailQueue[j].attemptsMade + 1 < mailQueue[j].opts.attempts
                   THEN dlqQueue
                   ELSE Append(dlqQueue, DeadLetter(mailQueue[j], j))
    /\ mailQueue' = [mailQueue EXCEPT ![j] = Rethrow(AddLogged(@, "accepted"))]
    /\ UNCHANGED baseVars

\* the broker accepts the add to 'mail-dlq': the dead-letter job is stored,
\* waiting, and the catch block goes on to rethrow the handler's error
DlqAddAccepted(j) ==
    /\ j \in Ids(mailQueue)
    /\ mailQueue[j].state = "active"
    /\ mailQueue[j].pc = "dlqAdd"
    /\ dlqQueue' = Append(dlqQueue, DeadLetter(mailQueue[j], j))
    /\ mailQueue' = [mailQueue EXCEPT ![j] = Rethrow(AddLogged(@, "accepted"))]
    /\ UNCHANGED baseVars

\* the add to 'mail-dlq' is rejected: no dead-letter job is stored, and
\* process rejects with the add's error
DlqAddRejected(j) ==
    /\ Cardinality(AddsRejected(mailQueue)) < MaxAddRejects
    /\ j \in Ids(mailQueue)
    /\ mailQueue[j].state = "active"
    /\ mailQueue[j].pc = "dlqAdd"
    /\ mailQueue' = [mailQueue EXCEPT ![j] = AddThrows(AddLogged(@, "rejected"))]
    /\ UNCHANGED <<baseVars, dlqQueue>>

\* the worker settles job j once process(job) resolved or rejected
MailWorkerFinish(j) ==
    /\ j \in Ids(mailQueue)
    /\ mailQueue[j].state = "active"
    /\ mailQueue[j].pc \in {"resolved", "rejected"}
    /\ mailQueue' = Settle(mailQueue, j, <<>>)
    /\ UNCHANGED <<baseVars, dlqQueue>>

\* whether the backoff of a delayed job is over
Due(job) == job.dueIn = 0

\* the broker moves a delayed job whose backoff is over back to waiting
MailPromote(j) ==
    /\ j \in Ids(mailQueue)
    /\ mailQueue[j].state = "delayed"
    /\ Due(mailQueue[j])
    /\ mailQueue' = [mailQueue EXCEPT ![j].state = "wait"]
    /\ UNCHANGED <<baseVars, dlqQueue>>

\* TickMs pass
Tick ==
    /\ \E j \in InState(mailQueue, "delayed") : mailQueue[j].dueIn > 0
    /\ mailQueue' =
         [j \in Ids(mailQueue) |->
            IF mailQueue[j].state = "delayed"
            THEN [mailQueue[j] EXCEPT
                    !.dueIn = Max(0, @ - TickMs),
                    !.waited = Min(@ + TickMs, mailQueue[j].opts.backoff)]
            ELSE mailQueue[j]]
    /\ UNCHANGED <<baseVars, dlqQueue>>

-----------------------------------------------------------------------------
(* DLQ variant: MailDLQProcessor on 'mail-dlq' *)

\* process(job) of MailDLQProcessor: console.log(`Processing DLQ job ...`),
\* nothing else, and the function ends
DlqLogged(job) == [job EXCEPT !.pc = "resolved"]

\* a worker of 'mail-dlq' that puts the job it processed back on 'mail'
DlqProcessRequeues ==
    /\ InState(dlqQueue, "wait") # {}
    /\ LET j == Oldest(dlqQueue) IN
         /\ dlqQueue' = Settle([dlqQueue EXCEPT ![j] = DlqLogged(Claimed(@))], j, <<>>)
         /\ mailQueue' = Append(mailQueue,
                                NewJob(dlqQueue[j].name, Parse(dlqQueue[j].json),
                                       MailQueueOptions, <<>>))
    /\ UNCHANGED baseVars

\* the worker of 'mail-dlq' (no options: one job at a time) takes the oldest
\* waiting dead-letter job, process(job) logs it and resolves, and the worker
\* settles it
DlqProcess ==
    /\ InState(dlqQueue, "wait") # {}
    /\ LET j == Oldest(dlqQueue) IN
         dlqQueue' = Settle([dlqQueue EXCEPT ![j] = DlqLogged(Claimed(@))], j, <<>>)
    /\ UNCHANGED <<baseVars, mailQueue>>

-----------------------------------------------------------------------------
(* Specifications *)

Init ==
    /\ calls = <<>>
    /\ appQueue = <<>>
    /\ appFailed = <<>>
    /\ env = Undefined
    /\ stalledIn = WorkerOptions.stalledInterval
    /\ mailQueue = <<>>
    /\ dlqQueue = <<>>

ProducerNext ==
    \/ \E m \in MailDatas : ProducerSendMail(m)
    \/ \E c \in 1..MaxJobs : ProducerReturn(c)
    \/ \E n \in {NOTIFY, FOREIGN}, d \in ForeignDatas : OtherModuleAdd(n, d)

BrokerNext ==
    \E c \in 1..MaxJobs : QueueAdd(c)

WorkerNext ==
    \/ WorkerClaim
    \/ \E j \in 1..MaxJobs : ProcessStart(j)
    \/ \E j \in 1..MaxJobs : SendMailResolves(j)
    \/ \E j \in 1..MaxJobs, m \in Messages : SendMailRejects(j, m)
    \/ \E j \in 1..MaxJobs : WorkerFinish(j)

\* the base variant
Next == ProducerNext \/ BrokerNext \/ WorkerNext

Spec == Init /\ [][Next]_vars

\* the base variant, the broker and the worker taking every step they can take
FairSpec == Spec /\ WF_vars(BrokerNext) /\ WF_vars(WorkerNext)

\* the base variant, only the broker's accepting of adds and the producer's
\* own continuation taking every step they can take: the worker may never run
AddFairSpec ==
    Spec /\ WF_vars(BrokerNext) /\ WF_vars(\E c \in 1..MaxJobs : ProducerReturn(c))

\* the settings of BULL_REMOVE_FAILED the shared queue is started with
EnvSettings == {Undefined, Text(<<"1">>), Text(<<"0">>)}

\* the state after construction, whatever the environment sets
InitModules ==
    /\ calls = <<>>
    /\ appQueue = <<>>
    /\ appFailed = <<>>
    /\ env \in EnvSettings
    /\ stalledIn = WorkerOptions.stalledInterval
    /\ mailQueue = <<>>
    /\ dlqQueue = <<>>

\* the base variant with a second module: its producer and its worker share
\* the queue with MailProducer and MailProcessor
NextModules ==
    \/ \E m \in MailDatas : ProducerSendMail(m)
    \/ \E c \in 1..MaxJobs : ProducerReturn(c)
    \/ \E n \in {NOTIFY, FOREIGN}, d \in ForeignDatas : OtherModuleAdd(n, d)
    \/ \E c \in 1..MaxJobs : QueueAdd(c)
    \/ WorkerClaim
    \/ \E j \in 1..MaxJobs : ProcessStart(j)
    \/ \E j \in 1..MaxJobs : SendMailResolves(j)
    \/ \E j \in 1..MaxJobs : WorkerFinish(j)
    \/ OtherWorkerClaim
    \/ \E j \in 1..MaxJobs : OtherProcessOk(j)
    \/ \E j \in 1..MaxJobs, m \in Messages : OtherProcessThrows(j, m)

SpecModules == InitModules /\ [][NextModules]_vars

\* the steps of the MailProcessor workers in two processes of the application
StallWorkerNext ==
    \/ WorkerClaim
    \/ ReplicaClaim
    \/ \E j \in 1..MaxJobs : ProcessStart(j)
    \/ \E j \in 1..MaxJobs : SendMailResolves(j)
    \/ \E j \in 1..MaxJobs : WorkerFinish(j)

\* the base variant run in two processes, either of which may terminate
NextStall ==
    \/ \E m \in MailDatas :
         Len(calls) < MaxStallJobs /\ ProducerSendMail(m)
    \/ \E c \in 1..MaxJobs : QueueAdd(c)
    \/ StallWorkerNext
    \/ \E w \in MailWorkers : WorkerCrash(w)
    \/ StallTick
    \/ StalledCheck

SpecStall == Init /\ [][NextStall]_vars

\* the same, time passing, the check running when it is due, and the workers
\* taking every step they can take
FairSpecStall ==
    SpecStall /\ WF_vars(StallTick) /\ WF_vars(StalledCheck) /\ WF_vars(StallWorkerNext)

\* the DLQ variant
NextDLQ ==
    \/ \E m \in DlqMailDatas : MailSendMail(m)
    \/ MailClaim
    \/ \E j \in 1..MaxMailJobs : MailProcessOk(j)
    \/ \E j \in 1..MaxMailJobs, m \in DlqMessages : MailProcessThrows(j, m)
    \/ \E j \in 1..MaxMailJobs : DlqAddAccepted(j)
    \/ \E j \in 1..MaxMailJobs : DlqAddRejected(j)
    \/ \E j \in 1..MaxMailJobs : MailWorkerFinish(j)
    \/ \E j \in 1..MaxMailJobs : MailPromote(j)
    \/ Tick
    \/ DlqProcess

SpecDLQ == Init /\ [][NextDLQ]_vars

-----------------------------------------------------------------------------
(* Claims about the base variant *)

\* whether delivery a of the job is past the switch of process
Dispatched(job, a) ==
    \/ a < Len(job.log)
    \/ job.log[a].outcome # ""
    \/ job.pc \in {"sendMail", "resolved", "rejected"}

\* the jobs MailProducer.sendMail enqueued, as <<call, job id>>
Enqueued == {<<c, calls[c].job>> : c \in {d \in 1..Len(calls) : calls[d].job # 0}}

\* C1: every job enqueued through MailProducer.sendMail is a 'mail.send' job,
\* and each of its deliveries invokes the sendMail handler exactly once (never
\* twice, and once as soon as process is past its switch) with exactly the
\* payload that was passed to sendMail.
C1_HandlerOncePerDelivery ==
    \A x \in Enqueued :
      LET job == appQueue[x[2]] IN
        /\ job.name = SEND
        /\ \A a \in 1..Len(job.log) :
             /\ Len(job.log[a].handled) <= 1
             /\ \A i \in 1..Len(job.log[a].handled) :
                  job.log[a].handled[i] = calls[x[1]].mailData
             /\ Dispatched(job, a) => Len(job.log[a].handled) = 1

\* two jobs with different mails were both delivered, handled and completed
C1_Witness ==
    \E x \in Enqueued, y \in Enqueued :
      /\ calls[x[1]].mailData # calls[y[1]].mailData
      /\ appQueue[x[2]].state = "completed"
      /\ appQueue[y[2]].state = "completed"
      /\ appQueue[x[2]].log[1].handled = <<calls[x[1]].mailData>>
      /\ appQueue[y[2]].log[1].handled = <<calls[y[1]].mailData>>

\* the jobs of the shared queue whose name MailProcessor has no case for
Unhandled == {j \in Ids(appQueue) : appQueue[j].name # SEND}

\* no handler ran for job j, which was delivered at most once and did not fail
NoHandlerNoRedelivery(j) ==
    /\ Len(appQueue[j].log) <= 1
    /\ \A a \in 1..Len(appQueue[j].log) :
         /\ appQueue[j].log[a].handled = <<>>
         /\ appQueue[j].log[a].outcome \in {"", "completed"}
    /\ appQueue[j].state \in {"wait", "active", "completed"}
    /\ appQueue[j].pc # "sendMail"

\* C2: for a job whose name is not 'mail.send' ('mail.notify' included) no
\* handler is executed, the job is acknowledged as completed (eventually, the
\* broker and the worker taking their steps), and it is delivered once only:
\* once completed it stays completed.
C2_UnhandledCompletesOnce ==
    /\ [](\A j \in Unhandled : NoHandlerNoRedelivery(j))
    /\ [][\A j \in Unhandled :
            appQueue[j].state = "completed" =>
              /\ appQueue'[j].state = "completed"
              /\ appQueue'[j].log = appQueue[j].log]_vars
    /\ \A j \in 1..MaxJobs :
         (j \in Unhandled) ~> (j \in Unhandled /\ appQueue[j].state = "completed")

\* a 'mail.notify' job and a job with payload null were completed with no handler run
C2_Witness ==
    /\ \E j \in Unhandled :
         /\ appQueue[j].name = NOTIFY
         /\ appQueue[j].state = "completed"
         /\ appQueue[j].log[1].handled = <<>>
    /\ \E j \in Unhandled :
         /\ appQueue[j].sent = Null
         /\ appQueue[j].state = "completed"
         /\ appQueue[j].log[1].threw = "TypeError"

\* the job was settled once for each of its deliveries but the one under way
SettledOncePerClaim(job) ==
    /\ job.acks = Cardinality({a \in 1..Len(job.log) : job.log[a].outcome # ""})
    /\ job.acks = IF job.state = "active" THEN Len(job.log) - 1 ELSE Len(job.log)
    /\ \A a \in 1..Len(job.log) :
         job.log[a].outcome \in
           IF a = Len(job.log) /\ job.state = "active" THEN {""}
           ELSE IF a = Len(job.log) /\ job.state = "completed" THEN {"completed"}
           ELSE IF a = Len(job.log) /\ job.state = "failed" THEN {"failed"}
           ELSE {"retry"}

\* C3: every job the worker claims is acknowledged exactly once per claim, as
\* completed or as failed and never as both, and the acknowledgement comes
\* eventually when the broker and the worker (the handler's delay included)
\* take their steps.
C3_ClaimedIsSettledOnce ==
    /\ [](\A j \in Ids(appQueue) : SettledOncePerClaim(appQueue[j]))
    /\ \A j \in 1..MaxJobs :
         (j \in Ids(appQueue) /\ appQueue[j].state = "active")
           ~> (j \in Ids(appQueue) /\ appQueue[j].state \in {"completed", "failed"})

\* a job that was suspended in the handler's delay has been settled, once
C3_Witness ==
    \E j \in Ids(appQueue) :
      /\ appQueue[j].name = SEND
      /\ appQueue[j].state = "completed"
      /\ appQueue[j].acks = 1
      /\ Len(appQueue[j].log) = 1

\* C7: in the base variant an error raised while process handles a job is
\* caught and logged and the job still reports success: process never rejects,
\* no job fails or is retried, and every delivery in which an error was raised
\* ends completed.
C7_FailureIsSwallowed ==
    /\ appFailed = <<>>
    /\ \A j \in Ids(appQueue) :
         /\ appQueue[j].pc # "rejected"
         /\ appQueue[j].state \in {"wait", "active", "completed"}
         /\ appQueue[j].attemptsMade = 0
         /\ Len(appQueue[j].log) <= 1
         /\ \A a \in 1..Len(appQueue[j].log) :
              appQueue[j].log[a].outcome \in {"", "completed"}

\* the handler of a 'mail.send' job rejected, and the job was completed
C7_Witness ==
    \E j \in Ids(appQueue) :
      /\ appQueue[j].name = SEND
      /\ appQueue[j].state = "completed"
      /\ appQueue[j].log[1].threw \in Messages
      /\ appQueue[j].log[1].outcome = "completed"

\* C10: sendMail returns once the broker has accepted its add and not before,
\* and it returns whatever the worker does: every call returns eventually when
\* the broker accepts adds and the producer goes on, even if the worker never
\* takes a step.
C10_ProducerDoesNotWait ==
    /\ [](\A c \in 1..Len(calls) :
            calls[c].pc = "returned" => calls[c].job \in Ids(appQueue))
    /\ \A c \in 1..MaxJobs :
         (c \in 1..Len(calls)) ~> (c \in 1..Len(calls) /\ calls[c].pc = "returned")

\* sendMail has returned while its job waits, and while another is being processed
C10_Witness ==
    /\ \E c \in 1..Len(calls) :
         /\ calls[c].pc = "returned"
         /\ appQueue[calls[c].job].state = "wait"
    /\ \E c \in 1..Len(calls) :
         /\ calls[c].pc = "returned"
         /\ appQueue[calls[c].job].state = "active"

-----------------------------------------------------------------------------
(* Claims about the workers of the shared queue *)

\* the worker of the module that owns job name n
Owner(n) == IF n = FOREIGN THEN OTHER_WORKER ELSE MAIL_WORKER

\* C11 as stated: with the workers of several modules bound to the shared
\* queue, a 'mail.send' job is acknowledged as completed only after the mail
\* handler was invoked with its payload, whichever worker claimed it, and a job
\* is only ever claimed by the worker of the module that owns its name.
C11_ModulesProcessOwnJobs ==
    \A j \in Ids(appQueue) :
      /\ (appQueue[j].name = SEND /\ appQueue[j].state = "completed") =>
           \E a \in 1..Len(appQueue[j].log) :
             appQueue[j].log[a].handled = <<appQueue[j].sent>>
      /\ Len(appQueue[j].log) > 0 => appQueue[j].worker = Owner(appQueue[j].name)

\* C12: MailProcessor (concurrency = 1) processes at most one job of the shared
\* queue at any time, and it processes the jobs in the order they were enqueued:
\* whenever a job has been handed to it, every job added before that one has
\* been settled, its handler (suspended in its delay or not) having finished.
C12_OneAtATimeInOrder ==
    /\ Cardinality(Running(MAIL_WORKER)) <= 1
    /\ \A i \in Ids(appQueue), j \in Ids(appQueue) :
         (i < j /\ Len(appQueue[j].log) > 0) =>
           /\ appQueue[i].state \in {"completed", "failed"}
           /\ appQueue[i].pc = "-"

\* the first 'mail.send' job was handled and completed, and the second one,
\* added while the first was suspended in its handler, is in its handler now
C12_Witness ==
    /\ Len(appQueue) >= 2
    /\ appQueue[1].name = SEND
    /\ appQueue[1].state = "completed"
    /\ appQueue[1].log[1].handled = <<appQueue[1].sent>>
    /\ appQueue[2].name = SEND
    /\ appQueue[2].state = "active"
    /\ appQueue[2].pc = "sendMail"

\* the failed jobs the shared queue stores
StoredFailed == {j \in InState(appQueue, "failed") : appQueue[j].kept}

\* C15: under the default job options of the shared queue (removeOnComplete:
\* true, removeOnFail: BULL_REMOVE_FAILED, 100 when it is not set) a completed
\* job is no longer stored in the queue, and the failed jobs stored in it are
\* never more than the configured limit: they are the newest failed ones.
C15_RetentionWithinLimit ==
    /\ \A j \in InState(appQueue, "completed") : ~appQueue[j].kept
    /\ \A j \in Ids(appQueue) : appQueue[j].opts.keepFailed = RemoveOnFail
    /\ ~env.defined => RemoveOnFail = 100
    /\ Cardinality(StoredFailed) <= RemoveOnFail
    /\ StoredFailed = {appFailed[i] : i \in 1..Len(appFailed)}
    /\ InState(appQueue, "failed") \ StoredFailed # {} =>
         Cardinality(StoredFailed) = RemoveOnFail

\* with BULL_REMOVE_FAILED = 1, two jobs failed and only the one that failed
\* last is stored
C15_Witness ==
    /\ env = Text(<<"1">>)
    /\ Cardinality(InState(appQueue, "failed")) = 2
    /\ StoredFailed = {appFailed[1]}
    /\ Len(appFailed) = 1

\* job j of the shared queue is in flight, and the process of its worker terminated
InFlightAtCrash(j) == j \in Ids(appQueue) /\ Orphaned(appQueue[j])

\* job j of the shared queue was delivered more than n times
DeliveredAfter(j, n) == j \in Ids(appQueue) /\ Len(appQueue[j].log) > n

\* every delivery of the job that is past the switch of process invoked the
\* handler once, with the payload the job was added with
SamePayloadEachDelivery(job) ==
    \A a \in 1..Len(job.log) :
      /\ job.log[a].handled \in {<<>>, <<job.sent>>}
      /\ (a < Len(job.log) /\ job.log[a].outcome = "completed")
           => job.log[a].handled = <<job.sent>>
      /\ (a = Len(job.log) /\ job.pc \in {"sendMail", "resolved"})
           => job.log[a].handled = <<job.sent>>

\* while a job is active and the process of its worker lives, no worker claims
\* it; a job whose worker terminated stays active until its lock has expired
\* and the check for stalled jobs runs
HeldWhileLocked ==
    \A j \in Ids(appQueue) :
      /\ (appQueue[j].state = "active" /\ ~Orphaned(appQueue[j])) =>
           /\ appQueue[j].lock > 0
           /\ appQueue'[j].worker = appQueue[j].worker
           /\ Len(appQueue'[j].log) = Len(appQueue[j].log)
      /\ (Orphaned(appQueue[j]) /\ appQueue'[j].state # "active") =>
           /\ appQueue[j].lock = 0
           /\ stalledIn = 0

\* C13 as stated: a job in flight when the process of its worker terminates is
\* eventually delivered again (time passing, the stalled check running, the
\* workers taking their steps), each delivery invoking the handler with the
\* same payload; and while its lock is held and its worker lives, no other
\* worker claims it.
C13_StalledJobIsRedelivered ==
    /\ [](\A j \in Ids(appQueue) : SamePayloadEachDelivery(appQueue[j]))
    /\ [][HeldWhileLocked]_vars
    /\ \A j \in 1..MaxStallJobs, n \in 1..(MaxCrashes + 1) :
         (InFlightAtCrash(j) /\ Len(appQueue[j].log) = n) ~> DeliveredAfter(j, n)

\* C13, amended: a job in flight when the process of its worker terminates is
\* eventually reclaimed, once its lock has expired and the stalled check has
\* run. The first time (maxStalledCount = 1, the default) it is delivered
\* again, each delivery invoking the handler with the same payload; a job that
\* was recovered from a stall before is then failed for good, with the reason
\* 'job stalled more than allowable limit', and not delivered again. While its
\* lock is held and its worker lives, no other worker claims the job.
C13_FirstStallIsRedelivered ==
    /\ [](\A j \in Ids(appQueue) :
            /\ SamePayloadEachDelivery(appQueue[j])
            /\ appQueue[j].stalls <= MaxStalledCount + 1
            /\ Len(appQueue[j].log) <= MaxStalledCount + 1
            /\ appQueue[j].state = "failed" =>
                 /\ appQueue[j].stalls = MaxStalledCount + 1
                 /\ appQueue[j].failedReason = StalledError)
    /\ [][HeldWhileLocked]_vars
    /\ \A j \in 1..MaxStallJobs, n \in 1..MaxStalledCount :
         (InFlightAtCrash(j) /\ appQueue[j].stalls = n - 1 /\ Len(appQueue[j].log) = n)
           ~> DeliveredAfter(j, n)
    /\ \A j \in 1..MaxStallJobs :
         (InFlightAtCrash(j) /\ appQueue[j].stalls >= MaxStalledCount)
           ~> (j \in Ids(appQueue) /\ appQueue[j].state = "failed")

\* a job whose first worker terminated during the handler's delay was delivered
\* again, to the other worker, and handled a second time with the same payload
C13_Witness ==
    \E j \in Ids(appQueue) :
      /\ Len(appQueue[j].log) = 2
      /\ appQueue[j].log[1].outcome = "stalled"
      /\ appQueue[j].log[1].handled = <<appQueue[j].sent>>
      /\ appQueue[j].log[2].handled = <<appQueue[j].sent>>
      /\ appQueue[j].worker = MAIL_REPLICA
      /\ appQueue[j].state = "completed"

-----------------------------------------------------------------------------
(* Claims about the DLQ variant *)

\* the dead-letter jobs ever added for attempt a of job j of 'mail'
DeadLettersOf(j, a) == {d \in Ids(dlqQueue) : dlqQueue[d].src = <<j, a>>}

\* dead-letter job d carries the name and the payload of job j of 'mail'
CarriesOriginal(d, j) ==
    /\ dlqQueue[d].name = mailQueue[j].name
    /\ Parse(dlqQueue[d].json) = mailQueue[j].sent

\* C4 as stated: for every failure of the mail handler whose attempt has been
\* marked failed, exactly one job was added to 'mail-dlq' for that failure,
\* carrying the original name and payload and a non-empty failure reason.
C4_ExactlyOneDeadLetterPerFailure ==
    \A x \in Thrown(mailQueue) :
      mailQueue[x[1]].log[x[2]].outcome # "" =>
        /\ Cardinality(DeadLettersOf(x[1], x[2])) = 1
        /\ \A d \in DeadLettersOf(x[1], x[2]) :
             /\ CarriesOriginal(d, x[1])
             /\ dlqQueue[d].opts.failedReason # ""

\* C4, amended: for every failure of the mail handler at most one job is added
\* to 'mail-dlq' for that failure, and exactly one when the broker accepts the
\* add; it carries the original name and payload and a non-empty failure
\* reason, and the add has ended (accepted, the job exists; rejected, no job
\* exists) before the attempt is marked failed.
C4_OneDeadLetterPerAcceptedAdd ==
    \A x \in Thrown(mailQueue) :
      LET e == mailQueue[x[1]].log[x[2]]
          dead == DeadLettersOf(x[1], x[2])
      IN
        /\ Cardinality(dead) = IF e.add = "accepted" THEN 1 ELSE 0
        /\ \A d \in dead :
             /\ CarriesOriginal(d, x[1])
             /\ dlqQueue[d].opts.failedReason # ""
        /\ e.outcome # "" => e.add \in {"accepted", "rejected"}
        /\ e.outcome \in {"", "retry", "failed"}

\* one failure was marked failed with its dead-letter job added, and another
\* with its add rejected
C4_Witness ==
    /\ \E x \in Thrown(mailQueue) :
         /\ mailQueue[x[1]].log[x[2]].outcome # ""
         /\ mailQueue[x[1]].log[x[2]].add = "accepted"
         /\ Cardinality(DeadLettersOf(x[1], x[2])) = 1
    /\ \E x \in Thrown(mailQueue) :
         /\ mailQueue[x[1]].log[x[2]].outcome # ""
         /\ mailQueue[x[1]].log[x[2]].add = "rejected"

\* C5 as stated: when the handler throws an error with message m, exactly one
\* dead-letter job is created, whose payload has the field failedReason equal
\* to m, and the original job is reported failed.
C5_PayloadCarriesReason ==
    /\ \A d \in Ids(dlqQueue) :
         /\ "failedReason" \in DOMAIN Parse(dlqQueue[d].json)
         /\ Parse(dlqQueue[d].json).failedReason =
              mailQueue[dlqQueue[d].src[1]].log[dlqQueue[d].src[2]].threw
    /\ \A x \in Thrown(mailQueue) :
         mailQueue[x[1]].log[x[2]].outcome # "" =>
           /\ Cardinality(DeadLettersOf(x[1], x[2])) = 1
           /\ mailQueue[x[1]].log[x[2]].outcome \in {"retry", "failed"}

\* C5, amended: when the handler throws an error with message m, the
\* dead-letter job created for it (one when the broker accepts the add, none
\* when it rejects it) carries m as failedReason in its options, not in its
\* payload, which is the original payload; and the original job's attempt is
\* reported failed: the job is delayed for a retry on its first and second
\* failed attempt and failed for good on its third, with the reason of the
\* rejection (m, or the add's error when the add was rejected).
C5_OptionsCarryReason ==
    \A x \in Thrown(mailQueue) :
      LET job == mailQueue[x[1]]
          e == job.log[x[2]]
          dead == DeadLettersOf(x[1], x[2])
      IN
        /\ Cardinality(dead) = IF e.add = "accepted" THEN 1 ELSE 0
        /\ \A d \in dead :
             /\ dlqQueue[d].opts.failedReason = e.threw
             /\ dlqQueue[d].opts.attempts = 0
             /\ Parse(dlqQueue[d].json) = job.sent
             /\ "failedReason" \notin DOMAIN Parse(dlqQueue[d].json)
        /\ e.outcome \in {"", IF x[2] < 3 THEN "retry" ELSE "failed"}
        /\ (e.outcome # "" /\ x[2] = Len(job.log)) =>
             /\ job.state \in IF x[2] < 3 THEN {"delayed", "wait"} ELSE {"failed"}
             /\ job.failedReason = IF e.add = "accepted" THEN e.threw ELSE AddError

\* the handler threw, one dead-letter job carries its message in its options,
\* and the original job is delayed for a retry
C5_Witness ==
    \E x \in Thrown(mailQueue) :
      /\ mailQueue[x[1]].state = "delayed"
      /\ x[2] = Len(mailQueue[x[1]].log)
      /\ \E d \in DeadLettersOf(x[1], x[2]) :
           dlqQueue[d].opts.failedReason = mailQueue[x[1]].log[x[2]].threw

\* job j of 'mail' has ended
Ended(j) == mailQueue[j].state \in {"completed", "failed"}

\* C6: a job of the 'mail' queue (attempts = 3, backoff = 5000) is attempted at
\* most 3 times, an attempt after the first starts at least 5000 ms after the
\* failure before it, the job has ended (completed or failed for good) once its
\* third attempt is settled and fails for good at no earlier attempt, and a
\* job that has ended is never attempted again.
C6_AtMostThreeAttempts ==
    /\ [](\A j \in Ids(mailQueue) :
            /\ Len(mailQueue[j].log) <= 3
            /\ mailQueue[j].attemptsMade <= 3
            /\ \A a \in 2..Len(mailQueue[j].log) : mailQueue[j].log[a].gap >= 5000
            /\ (Len(mailQueue[j].log) = 3 /\ mailQueue[j].log[3].outcome # "")
                 => Ended(j)
            /\ mailQueue[j].state = "failed" => Len(mailQueue[j].log) = 3)
    /\ [][\A j \in Ids(mailQueue) :
            Ended(j) => /\ mailQueue'[j].state = mailQueue[j].state
                        /\ mailQueue'[j].log = mailQueue[j].log]_vars

\* a job failed for good at its third attempt, each retry after the backoff,
\* while another job was completed
C6_Witness ==
    /\ \E j \in Ids(mailQueue) :
         /\ mailQueue[j].state = "failed"
         /\ Len(mailQueue[j].log) = 3
         /\ mailQueue[j].attemptsMade = 3
         /\ mailQueue[j].log[2].gap >= 5000
         /\ mailQueue[j].log[3].gap >= 5000
    /\ \E j \in Ids(mailQueue) : mailQueue[j].state = "completed"

\* C8: a 'mail.send' job whose handler does not fail is completed and leaves no
\* dead-letter job: every dead-letter job records an attempt in which the
\* handler threw, an attempt without a throw ends completed with no add to
\* 'mail-dlq', and while no handler has failed 'mail-dlq' is empty.
C8_DeadLetterOnlyAfterFailure ==
    /\ \A d \in Ids(dlqQueue) : dlqQueue[d].src \in Thrown(mailQueue)
    /\ Thrown(mailQueue) = {} => dlqQueue = <<>>
    /\ \A j \in Ids(mailQueue) :
         \A a \in 1..Len(mailQueue[j].log) :
           mailQueue[j].log[a].threw = "" =>
             /\ DeadLettersOf(j, a) = {}
             /\ mailQueue[j].log[a].add = ""
             /\ mailQueue[j].log[a].outcome \in {"", "completed"}
             /\ mailQueue[j].pc # "dlqAdd"

\* a job whose sending did not fail is completed, and 'mail-dlq' is empty
C8_Witness ==
    /\ dlqQueue = <<>>
    /\ \E j \in Ids(mailQueue) :
         /\ mailQueue[j].state = "completed"
         /\ mailQueue[j].log[1].handled = <<mailQueue[j].sent>>
         /\ mailQueue[j].log[1].threw = ""

\* C9 as stated: the DLQ is append-only, every dead-letter job ever added to
\* 'mail-dlq' is still stored there, also after MailDLQProcessor processed it.
C9_DeadLettersAreKept ==
    \A d \in Ids(dlqQueue) : dlqQueue[d].kept

\* whether the step processes dead-letter job d
Processes(d) == Len(dlqQueue'[d].log) > Len(dlqQueue[d].log)

\* C14: a dead-letter record is a job of its own on 'mail-dlq', created with
\* retry disabled (attempts = 0) and no history of the original job;
\* MailDLQProcessor processes it at most once and it is never retried or
\* delayed; processing it adds no job to 'mail' and changes nothing of the
\* original job; and once processed it is never touched again.
C14_DeadLetterIsObservedOnce ==
    /\ [](\A d \in Ids(dlqQueue) :
            /\ dlqQueue[d].opts.attempts = 0
            /\ dlqQueue[d].name = MAIL_SEND
            /\ dlqQueue[d].attemptsMade = 0
            /\ Len(dlqQueue[d].log) <= 1
            /\ dlqQueue[d].state \in {"wait", "completed"}
            /\ dlqQueue[d].state = "wait" <=> dlqQueue[d].log = <<>>)
    /\ [][\A d \in Ids(dlqQueue) :
            /\ Processes(d) => mailQueue' = mailQueue
            /\ dlqQueue[d].state = "completed" => dlqQueue'[d] = dlqQueue[d]]_vars

\* a dead-letter job was processed, once, while the job it records waits out
\* its backoff on 'mail', its state as the failed attempt left it
C14_Witness ==
    \E d \in Ids(dlqQueue) :
      /\ dlqQueue[d].state = "completed"
      /\ Len(dlqQueue[d].log) = 1
      /\ mailQueue[dlqQueue[d].src[1]].state = "delayed"
      /\ mailQueue[dlqQueue[d].src[1]].attemptsMade = dlqQueue[d].src[2]
      /\ Len(mailQueue) = 1

\* the dead-letter jobs ever created for job j of 'mail'
RecordsOf(j) == {d \in Ids(dlqQueue) : dlqQueue[d].src[1] = j}

\* the attempts of job j that were marked failed
FailedAttempts(j) ==
    {a \in 1..Len(mailQueue[j].log) : mailQueue[j].log[a].outcome \in {"retry", "failed"}}

\* the attempts of job j whose add to 'mail-dlq' the broker accepted
Escalated(j) ==
    {a \in 1..Len(mailQueue[j].log) : mailQueue[j].log[a].add = "accepted"}

\* C16 as stated: whenever no attempt of a job of 'mail' is under way, the
\* number of dead-letter jobs created for it equals the number of its failed
\* attempts, between 0 and 3, each with the name and payload of the job.
C16_RecordsEqualFailedAttempts ==
    \A j \in Ids(mailQueue) :
      mailQueue[j].state # "active" =>
        /\ Cardinality(RecordsOf(j)) = Cardinality(FailedAttempts(j))
        /\ Cardinality(RecordsOf(j)) <= 3
        /\ \A d \in RecordsOf(j) : CarriesOriginal(d, j)

\* C16, amended: the number of dead-letter jobs created for a job of 'mail'
\* always equals the number of its failed attempts whose add to 'mail-dlq' the
\* broker accepted, hence lies between 0 and the number of its failed attempts,
\* which is at most 3; a record is created at every such attempt, not only the
\* final one, so a job that fails once and is completed on retry still has its
\* record, and a job that fails all attempts with every add accepted has three,
\* all with the name and the payload of the job.
C16_RecordsEqualEscalatedAttempts ==
    \A j \in Ids(mailQueue) :
      /\ Cardinality(RecordsOf(j)) = Cardinality(Escalated(j))
      /\ \A a \in Escalated(j) : Cardinality(DeadLettersOf(j, a)) = 1
      /\ \A d \in RecordsOf(j) : CarriesOriginal(d, j)
      /\ Cardinality(FailedAttempts(j)) <= 3
      /\ mailQueue[j].state # "active" =>
           /\ Escalated(j) \subseteq FailedAttempts(j)
           /\ \A a \in FailedAttempts(j) \ Escalated(j) :
                mailQueue[j].log[a].add = "rejected"
      /\ (mailQueue[j].state = "failed"
            /\ \A a \in 1..3 : mailQueue[j].log[a].add = "accepted")
           => Cardinality(RecordsOf(j)) = 3

\* a job that failed once was completed on its retry and has one dead-letter
\* job, while another job has failed twice and has two
C16_Witness ==
    /\ \E j \in Ids(mailQueue) :
         /\ mailQueue[j].state = "completed"
         /\ Len(mailQueue[j].log) = 2
         /\ Cardinality(RecordsOf(j)) = 1
    /\ \E j \in Ids(mailQueue) :
         /\ Cardinality(FailedAttempts(j)) = 2
         /\ Cardinality(RecordsOf(j)) = 2

\* C17: when the add to 'mail-dlq' fails during escalation, process ends with
\* the add's error: the attempt is never completed, it is marked failed with
\* that error as the reason, the job stays under the retry policy of 'mail'
\* (delayed for a retry on its first and second attempt, failed for good on its
\* third), and no dead-letter job exists for the attempt.
C17_FailedEscalationStillFails ==
    \A x \in AddsRejected(mailQueue) :
      LET job == mailQueue[x[1]]
          e == job.log[x[2]]
          last == x[2] = Len(job.log)
      IN
        /\ DeadLettersOf(x[1], x[2]) = {}
        /\ e.threw \in DlqMessages
        /\ e.outcome \in {"", IF x[2] < job.opts.attempts THEN "retry" ELSE "failed"}
        /\ (last /\ e.outcome = "") =>
             /\ job.state = "active"
             /\ job.pc = "rejected"
             /\ job.err = AddError
        /\ (last /\ e.outcome # "") =>
             /\ job.failedReason = AddError
             /\ job.attemptsMade = x[2]
             /\ job.state \in IF x[2] < job.opts.attempts
                               THEN {"delayed", "wait"} ELSE {"failed"}

\* the add to 'mail-dlq' was rejected in the first attempt of a job, which was
\* marked failed with the add's error, left no dead-letter job, and is retried
C17_Witness ==
    \E x \in AddsRejected(mailQueue) :
      /\ x[2] = 1
      /\ mailQueue[x[1]].log[1].outcome = "retry"
      /\ mailQueue[x[1]].failedReason = AddError
      /\ DeadLettersOf(x[1], 1) = {}
      /\ Len(mailQueue[x[1]].log) = 2
      /\ mailQueue[x[1]].state = "active"

====
